---- MODULE Spec2Model ----
(***************************************************************************)
(* HighlightRenderer (src/components/highlighting/ui/highlight-renderer.jsx)*)
(* as a state machine: the component's props and state, the page layout it  *)
(* measures, and the output of its last render.                            *)
(***************************************************************************)
EXTENDS Integers, Sequences, FiniteSets, TLC

VARIABLES
    props,            \* this.props
    state,            \* this.state
    layout,           \* the page layout the DOM currently has
    rendered,         \* what the last render() returned
    measured,         \* history: where the content was, relative to the offset
                      \* parent, at the last mount / identity change
    offsetParentRectAtRender,  \* history: the offset parent's bounding
                      \* rectangle when render() last ran
    calls,            \* the calls the last step made: who called _computeRects,
                      \* the keys onRemoveHighlight was called with, whether
                      \* setState({tooltipIsHovered}) was called
    pointerWasOverHighlight,  \* history: at mount or at some render since,
                      \* the pointer was inside a cached rectangle
    args,             \* SpecRect: the rectangle and the point tested
    result            \* SpecRect, SpecHover: what the function returned

vars == <<props, state, layout, rendered, measured, offsetParentRectAtRender,
          calls, pointerWasOverHighlight, args, result>>

-----------------------------------------------------------------------------
(* Bounds *)

MaxCoord == 1     \* the pointer visits the viewport grid 0..MaxCoord
MaxScroll == 1    \* the page scrolls down by 0..MaxScroll (and sideways by 0..1)
MaxLen == 2       \* SpecHover: rectangles in a cached list
MaxPos == 1       \* SpecHover, SpecRect: rectangle corners in 0..MaxPos
MaxSize == 1      \* SpecHover, SpecRect: rectangle sizes in 0..MaxSize

-----------------------------------------------------------------------------
(* Values *)

Absent == [absent |-> TRUE]             \* a null mouseClientPosition

Highlights == {"h1", "h2", "h3"}        \* DOMHighlight objects, by identity
OffsetParents == {"p1", "p2"}           \* Elements, by identity
HighlightKeys == {"k1", "k2"}
Positions == [left : 0..MaxCoord, top : 0..MaxCoord]
MousePositions == Positions \cup {Absent}

Point(l, t) == [left |-> l, top |-> t]
MkRect(l, t, w, h) == [left |-> l, top |-> t, width |-> w, height |-> h]

\* highlight.domRange as character offsets into the text; h1 and h2 are two
\* objects with the same range, h3 is a collapsed range.
DomRange ==
    [h \in Highlights |->
        IF h = "h3" THEN [startOffset |-> 1, endOffset |-> 1]
                    ELSE [startOffset |-> 0, endOffset |-> 3]]

\* Document positions of the text and of the two offset parents.
TextOrigin == Point(0, 0)
ParentOrigin == [p \in OffsetParents |-> IF p = "p1" THEN Point(0, 0) ELSE Point(-1, -1)]

\* The text wraps after two or after three characters: the three characters
\* of h1 and h2 lie on two lines or on one.
Wraps == {2, 3}
Scrolls == [left : 0..1, top : 0..MaxScroll]
Layouts == [wrap : Wraps, scroll : Scrolls]

Min(a, b) == IF a < b THEN a ELSE b
Max(a, b) == IF a < b THEN b ELSE a

-----------------------------------------------------------------------------
(* util.js and the DOM *)

\* One rectangle per line the range covers, top to bottom, in viewport
\* coordinates; none for a collapsed range.
getClientRectsForTextInRange(domRange, lay) ==
    IF domRange.startOffset >= domRange.endOffset THEN << >>
    ELSE
        LET firstRow == domRange.startOffset \div lay.wrap
            lastRow == (domRange.endOffset - 1) \div lay.wrap
        IN  [i \in 1..(lastRow - firstRow + 1) |->
                LET row == firstRow + i - 1
                    from == Max(domRange.startOffset, row * lay.wrap)
                    to == Min(domRange.endOffset, (row + 1) * lay.wrap)
                IN  MkRect(TextOrigin.left + (from % lay.wrap) - lay.scroll.left,
                           TextOrigin.top + row - lay.scroll.top,
                           to - from, 1)]

\* offsetParent.getBoundingClientRect()
getBoundingClientRect(offsetParent, lay) ==
    MkRect(ParentOrigin[offsetParent].left - lay.scroll.left,
           ParentOrigin[offsetParent].top - lay.scroll.top,
           4, 4)

getRelativePosition(position, originRect) ==
    [left |-> position.left - originRect.left,
     top |-> position.top - originRect.top]

getRelativeRect(rect, originRect) ==
    [left |-> rect.left - originRect.left,
     top |-> rect.top - originRect.top,
     width |-> rect.width,
     height |-> rect.height]

-----------------------------------------------------------------------------
(* HighlightRenderer *)

\* Mutant: the viewport rectangles are kept as they are measured.
computeClientRects(p, lay) ==
    getClientRectsForTextInRange(DomRange[p.highlight], lay)

\* _computeRects(props), measured on the layout lay
_computeRects(p, lay) ==
    LET clientRects == getClientRectsForTextInRange(DomRange[p.highlight], lay)
        offsetParentRect == getBoundingClientRect(p.offsetParent, lay)
    IN  [i \in 1..Len(clientRects) |->
            getRelativeRect(clientRects[i], offsetParentRect)]

\* Mutant: the offset parent is not compared.
recomputeOnHighlightOnly(p, nextProps) ==
    p.highlight # nextProps.highlight

\* Mutant: the highlights are compared by their ranges, not by identity.
recomputeOnRangeChange(p, nextProps) ==
    \/ DomRange[p.highlight] # DomRange[nextProps.highlight]
    \/ p.offsetParent # nextProps.offsetParent

\* the condition of componentWillReceiveProps
propsNeedRecompute(p, nextProps) ==
    \/ p.highlight # nextProps.highlight
    \/ p.offsetParent # nextProps.offsetParent

\* Mutant: the rectangles are computed from this.props, not from nextProps.
recomputeFromCurrentProps(p, s, nextProps, lay) ==
    IF propsNeedRecompute(p, nextProps)
        THEN [s EXCEPT !.cachedHighlightRects = _computeRects(p, lay)]
        ELSE s

\* Mutant: a recompute replaces the whole state by a fresh one.
replaceStateOnRecompute(p, s, nextProps, lay) ==
    IF propsNeedRecompute(p, nextProps)
        THEN [cachedHighlightRects |-> _computeRects(nextProps, lay),
              tooltipIsHovered |-> FALSE]
        ELSE s

\* componentWillReceiveProps(nextProps): the state it leaves
componentWillReceiveProps(p, s, nextProps, lay) ==
    IF propsNeedRecompute(p, nextProps)
        THEN [s EXCEPT !.cachedHighlightRects = _computeRects(nextProps, lay)]
        ELSE s

\* Mutant: the right and bottom edges count as inside.
rectIsHoveredClosed(rect, mouseOffsetPosition) ==
    LET positionWithinRect == getRelativePosition(mouseOffsetPosition, rect)
    IN  /\ 0 <= positionWithinRect.left
        /\ positionWithinRect.left <= rect.width
        /\ 0 <= positionWithinRect.top
        /\ positionWithinRect.top <= rect.height

_rectIsHovered(rect, mouseOffsetPosition) ==
    LET positionWithinRect == getRelativePosition(mouseOffsetPosition, rect)
    IN  /\ 0 <= positionWithinRect.left
        /\ positionWithinRect.left < rect.width
        /\ 0 <= positionWithinRect.top
        /\ positionWithinRect.top < rect.height

\* Mutant: the offset parent's rectangle of the unscrolled page is used.
hoveredWithStaleParentRect(mouseClientPosition, p, s, lay) ==
    IF mouseClientPosition = Absent
        THEN [hovered |-> FALSE, readsOffsetParentRect |-> FALSE]
    ELSE
        LET offsetParentRect ==
                getBoundingClientRect(p.offsetParent,
                                      [lay EXCEPT !.scroll = Point(0, 0)])
            mouseOffsetPosition ==
                getRelativePosition(mouseClientPosition, offsetParentRect)
        IN  [hovered |->
                \E i \in 1..Len(s.cachedHighlightRects) :
                    _rectIsHovered(s.cachedHighlightRects[i], mouseOffsetPosition),
             readsOffsetParentRect |-> TRUE]

\* Mutant: only the first cached rectangle is tested.
firstRectIsHovered(mouseClientPosition, p, s, lay) ==
    IF mouseClientPosition = Absent
        THEN [hovered |-> FALSE, readsOffsetParentRect |-> FALSE]
    ELSE
        LET offsetParentRect == getBoundingClientRect(p.offsetParent, lay)
            mouseOffsetPosition ==
                getRelativePosition(mouseClientPosition, offsetParentRect)
        IN  [hovered |->
                /\ Len(s.cachedHighlightRects) > 0
                /\ _rectIsHovered(s.cachedHighlightRects[1], mouseOffsetPosition),
             readsOffsetParentRect |-> TRUE]

\* Mutant: the offset parent is measured before the position is looked at.
hoveredMeasuringFirst(mouseClientPosition, p, s, lay) ==
    LET offsetParentRect == getBoundingClientRect(p.offsetParent, lay)
    IN  IF mouseClientPosition = Absent
            THEN [hovered |-> FALSE, readsOffsetParentRect |-> TRUE]
        ELSE
            LET mouseOffsetPosition ==
                    getRelativePosition(mouseClientPosition, offsetParentRect)
            IN  [hovered |->
                    \E i \in 1..Len(s.cachedHighlightRects) :
                        _rectIsHovered(s.cachedHighlightRects[i],
                                       mouseOffsetPosition),
                 readsOffsetParentRect |-> TRUE]

\* Mutant: every cached rectangle must be hovered (true of an empty list).
everyRectIsHovered(mouseClientPosition, p, s, lay) ==
    IF mouseClientPosition = Absent
        THEN [hovered |-> FALSE, readsOffsetParentRect |-> FALSE]
    ELSE
        LET offsetParentRect == getBoundingClientRect(p.offsetParent, lay)
            mouseOffsetPosition ==
                getRelativePosition(mouseClientPosition, offsetParentRect)
        IN  [hovered |->
                \A i \in 1..Len(s.cachedHighlightRects) :
                    _rectIsHovered(s.cachedHighlightRects[i], mouseOffsetPosition),
             readsOffsetParentRect |-> TRUE]

\* _highlightIsHovered: the boolean it returns, and whether it called
\* offsetParent.getBoundingClientRect() on the way.
_highlightIsHovered(mouseClientPosition, p, s, lay) ==
    IF mouseClientPosition = Absent
        THEN [hovered |-> FALSE, readsOffsetParentRect |-> FALSE]
    ELSE
        LET offsetParentRect == getBoundingClientRect(p.offsetParent, lay)
            mouseOffsetPosition ==
                getRelativePosition(mouseClientPosition, offsetParentRect)
        IN  [hovered |->
                \E i \in 1..Len(s.cachedHighlightRects) :
                    _rectIsHovered(s.cachedHighlightRects[i], mouseOffsetPosition),
             readsOffsetParentRect |-> TRUE]

\* Mutant: the editable check is missing.
showWithoutEditableCheck(p, s, lay) ==
    IF s.tooltipIsHovered THEN TRUE
    ELSE IF _highlightIsHovered(p.mouseClientPosition, p, s, lay).hovered THEN TRUE
    ELSE FALSE

\* Mutant: a hovered tooltip does not keep itself shown.
showOnlyOverHighlight(p, s, lay) ==
    IF ~p.editable THEN FALSE
    ELSE IF _highlightIsHovered(p.mouseClientPosition, p, s, lay).hovered THEN TRUE
    ELSE FALSE

_shouldShowTooltip(p, s, lay) ==
    IF ~p.editable THEN FALSE
    ELSE IF s.tooltipIsHovered THEN TRUE
    ELSE IF _highlightIsHovered(p.mouseClientPosition, p, s, lay).hovered THEN TRUE
    ELSE FALSE

\* Mutant: a read-only highlight draws nothing.
renderRectsWhenEditable(p, s, lay) ==
    [rects |-> IF p.editable THEN s.cachedHighlightRects ELSE << >>,
     tooltip |-> _shouldShowTooltip(p, s, lay)]

\* Mutant: the tooltip element is always there.
renderTooltipAlways(p, s, lay) ==
    [rects |-> s.cachedHighlightRects,
     tooltip |-> TRUE]

\* render(): the rectangles drawn and whether the tooltip element exists
render(p, s, lay) ==
    [rects |-> s.cachedHighlightRects,
     tooltip |-> _shouldShowTooltip(p, s, lay)]

-----------------------------------------------------------------------------
(* The component's steps *)

PropsSet ==
    [editable : BOOLEAN, highlight : Highlights, highlightKey : HighlightKeys,
     mouseClientPosition : MousePositions, offsetParent : OffsetParents]

NoCalls ==
    [computeRects |-> "no", onRemoveHighlight |-> << >>,
     setTooltipIsHovered |-> FALSE]
NoArgs == [none |-> TRUE]
NoResult == [done |-> FALSE]

\* Where the content of highlight h is, relative to offset parent o.
ContentRects(h, o, lay) ==
    LET clientRects == getClientRectsForTextInRange(DomRange[h], lay)
        origin == getBoundingClientRect(o, lay)
    IN  [i \in 1..Len(clientRects) |->
            MkRect(clientRects[i].left - origin.left,
                   clientRects[i].top - origin.top,
                   clientRects[i].width, clientRects[i].height)]

\* The half-open containment test of a point in a rectangle of the same space.
Inside(point, rect) ==
    /\ rect.left <= point.left
    /\ point.left < rect.left + rect.width
    /\ rect.top <= point.top
    /\ point.top < rect.top + rect.height

InsideAny(point, rects) == \E i \in 1..Len(rects) : Inside(point, rects[i])

\* The point as seen from the top-left corner of originRect.
SeenFrom(point, originRect) ==
    Point(point.left - originRect.left, point.top - originRect.top)

\* The pointer is inside a cached rectangle, the offset parent being where
\* the layout puts it.
PointerOverHighlight(p, s, lay) ==
    /\ p.mouseClientPosition # Absent
    /\ InsideAny(SeenFrom(p.mouseClientPosition,
                          getBoundingClientRect(p.offsetParent, lay)),
                 s.cachedHighlightRects)

\* React.PureComponent renders again when a prop or a state field is a
\* different value; setState with a computed list always is one.
shouldComponentUpdate(p, s, nextProps, nextState, recomputed) ==
    \/ p # nextProps
    \/ s.tooltipIsHovered # nextState.tooltipIsHovered
    \/ recomputed

\* Mutant: render() runs before the new state is in place.
commitRenderingOldState(nextProps, nextState, update) ==
    /\ props' = nextProps
    /\ state' = nextState
    /\ rendered' = IF update THEN render(nextProps, state, layout) ELSE rendered
    /\ offsetParentRectAtRender' =
            IF update THEN getBoundingClientRect(nextProps.offsetParent, layout)
                      ELSE offsetParentRectAtRender
    /\ pointerWasOverHighlight' =
            (\/ pointerWasOverHighlight
             \/ update /\ PointerOverHighlight(nextProps, state, layout))

\* The render that follows an update, or the previous output when
\* PureComponent skips it.
Commit(nextProps, nextState, update) ==
    /\ props' = nextProps
    /\ state' = nextState
    /\ rendered' = IF update THEN render(nextProps, nextState, layout) ELSE rendered
    /\ offsetParentRectAtRender' =
            IF update THEN getBoundingClientRect(nextProps.offsetParent, layout)
                      ELSE offsetParentRectAtRender
    /\ pointerWasOverHighlight' =
            (\/ pointerWasOverHighlight
             \/ update /\ PointerOverHighlight(nextProps, nextState, layout))

\* The parent renders with nextProps.
ReceiveProps(nextProps) ==
    LET nextState == componentWillReceiveProps(props, state, nextProps, layout)
        recomputed == propsNeedRecompute(props, nextProps)
        identityChanged == \/ props.highlight # nextProps.highlight
                           \/ props.offsetParent # nextProps.offsetParent
    IN  /\ Commit(nextProps, nextState,
                  shouldComponentUpdate(props, state, nextProps, nextState,
                                        recomputed))
        /\ calls' = [NoCalls EXCEPT !.computeRects =
                        IF recomputed THEN "componentWillReceiveProps" ELSE "no"]
        /\ measured' = IF identityChanged
                          THEN ContentRects(nextProps.highlight,
                                            nextProps.offsetParent, layout)
                          ELSE measured
        /\ UNCHANGED <<layout, args, result>>

\* The new highlight may be the one already held: an update that changes
\* nothing.
HighlightChanged ==
    \E h \in Highlights :
        ReceiveProps([props EXCEPT !.highlight = h])

ContainerChanged ==
    \E o \in OffsetParents \ {props.offsetParent} :
        ReceiveProps([props EXCEPT !.offsetParent = o])

PointerMoved ==
    \E m \in MousePositions \ {props.mouseClientPosition} :
        ReceiveProps([props EXCEPT !.mouseClientPosition = m])

EditableFlag ==
    ReceiveProps([props EXCEPT !.editable = ~props.editable])

HighlightKeyChanged ==
    \E k \in HighlightKeys \ {props.highlightKey} :
        ReceiveProps([props EXCEPT !.highlightKey = k])

\* One update that delivers a new highlight and a new pointer position.
HighlightAndPointerChanged ==
    \E h \in Highlights \ {props.highlight},
       m \in MousePositions \ {props.mouseClientPosition} :
        ReceiveProps([props EXCEPT !.highlight = h,
                                   !.mouseClientPosition = m])

\* The handlers exist only on the rendered tooltip.
_handleTooltipMouseEnter ==
    /\ rendered.tooltip
    /\ LET nextState == [state EXCEPT !.tooltipIsHovered = TRUE]
       IN  Commit(props, nextState,
                  shouldComponentUpdate(props, state, props, nextState, FALSE))
    /\ calls' = [NoCalls EXCEPT !.setTooltipIsHovered = TRUE]
    /\ UNCHANGED <<layout, measured, args, result>>

_handleTooltipMouseLeave ==
    /\ rendered.tooltip
    /\ LET nextState == [state EXCEPT !.tooltipIsHovered = FALSE]
       IN  Commit(props, nextState,
                  shouldComponentUpdate(props, state, props, nextState, FALSE))
    /\ calls' = [NoCalls EXCEPT !.setTooltipIsHovered = TRUE]
    /\ UNCHANGED <<layout, measured, args, result>>

\* Mutant: the remove request also ends the tooltip's hover.
removeAndHideTooltip ==
    /\ rendered.tooltip
    /\ LET nextState == [state EXCEPT !.tooltipIsHovered = FALSE]
       IN  Commit(props, nextState,
                  shouldComponentUpdate(props, state, props, nextState, FALSE))
    /\ calls' = [NoCalls EXCEPT !.onRemoveHighlight = <<props.highlightKey>>]
    /\ UNCHANGED <<layout, measured, args, result>>

_handleRemoveHighlight ==
    /\ rendered.tooltip
    /\ calls' = [NoCalls EXCEPT !.onRemoveHighlight = <<props.highlightKey>>]
    /\ UNCHANGED <<props, state, layout, rendered, measured,
                   offsetParentRectAtRender, pointerWasOverHighlight, args, result>>

-----------------------------------------------------------------------------
(* The page *)

\* The page scrolls by one step along one axis: the offset parents and the
\* text move together.
Scroll ==
    \E sc \in Scrolls :
        /\ \/ sc.left = layout.scroll.left /\ sc.top - layout.scroll.top \in {-1, 1}
           \/ sc.top = layout.scroll.top /\ sc.left - layout.scroll.left \in {-1, 1}
        /\ layout' = [layout EXCEPT !.scroll = sc]
        /\ calls' = NoCalls
        /\ UNCHANGED <<props, state, rendered, measured,
                       offsetParentRectAtRender, pointerWasOverHighlight, args, result>>

\* The text wraps at another width: it moves within its offset parent.
Reflow ==
    \E w \in Wraps :
        /\ w # layout.wrap
        /\ layout' = [layout EXCEPT !.wrap = w]
        /\ calls' = NoCalls
        /\ UNCHANGED <<props, state, rendered, measured,
                       offsetParentRectAtRender, pointerWasOverHighlight, args, result>>

-----------------------------------------------------------------------------
(* Mount: the constructor computes the cache, then the first render *)

\* Mutant: the tooltip counts as hovered from the start.
initialStateHovered(p, lay) ==
    [cachedHighlightRects |-> _computeRects(p, lay),
     tooltipIsHovered |-> TRUE]

InitialState(p, lay) ==
    [cachedHighlightRects |-> _computeRects(p, lay),
     tooltipIsHovered |-> FALSE]

Init ==
    /\ props \in PropsSet
    /\ layout \in Layouts
    /\ state = InitialState(props, layout)
    /\ rendered = render(props, state, layout)
    /\ measured = ContentRects(props.highlight, props.offsetParent, layout)
    /\ offsetParentRectAtRender = getBoundingClientRect(props.offsetParent, layout)
    /\ calls = [NoCalls EXCEPT !.computeRects = "constructor"]
    /\ pointerWasOverHighlight = PointerOverHighlight(props, state, layout)
    /\ args = NoArgs
    /\ result = NoResult

Next ==
    \/ HighlightChanged
    \/ ContainerChanged
    \/ PointerMoved
    \/ EditableFlag
    \/ HighlightKeyChanged
    \/ HighlightAndPointerChanged
    \/ _handleTooltipMouseEnter
    \/ _handleTooltipMouseLeave
    \/ _handleRemoveHighlight
    \/ Scroll
    \/ Reflow

Spec == Init /\ [][Next]_vars

-----------------------------------------------------------------------------
(* _rectIsHovered and _highlightIsHovered on their own *)

ProbeRects ==
    [left : 0..MaxPos, top : 0..MaxPos, width : 0..MaxSize, height : 0..MaxSize]
ProbePoints ==
    [left : (0 - 1)..(MaxPos + MaxSize), top : (0 - 1)..(MaxPos + MaxSize)]

\* The cached lists of SpecHover: up to MaxLen one-line rectangles, in any order.
LineRects == [left : 0..MaxPos, top : 0..MaxPos, width : 0..MaxSize, height : {1}]
RectLists == UNION {[1..n -> LineRects] : n \in 0..MaxLen}

Reverse(rects) == [i \in 1..Len(rects) |-> rects[Len(rects) + 1 - i]]

\* A component that is not running: the variables the function does not read.
Unmounted ==
    /\ rendered = [rects |-> << >>, tooltip |-> FALSE]
    /\ measured = << >>
    /\ offsetParentRectAtRender = MkRect(0, 0, 0, 0)
    /\ calls = NoCalls
    /\ pointerWasOverHighlight = FALSE
    /\ result = NoResult

InitRect ==
    /\ args \in [rect : ProbeRects, point : ProbePoints]
    /\ props = [editable |-> TRUE, highlight |-> "h3", highlightKey |-> "k1",
                mouseClientPosition |-> Absent, offsetParent |-> "p1"]
    /\ state = [cachedHighlightRects |-> << >>, tooltipIsHovered |-> FALSE]
    /\ layout = [wrap |-> 3, scroll |-> Point(0, 0)]
    /\ Unmounted

EvalRect ==
    /\ ~result.done
    /\ result' = [done |-> TRUE,
                  value |-> _rectIsHovered(args.rect, args.point)]
    /\ UNCHANGED <<props, state, layout, rendered, measured,
                   offsetParentRectAtRender, calls, pointerWasOverHighlight, args>>

SpecRect == InitRect /\ [][EvalRect]_vars

InitHover ==
    /\ args = NoArgs
    /\ props \in [editable : {TRUE}, highlight : {"h1"}, highlightKey : {"k1"},
                  mouseClientPosition : MousePositions,
                  offsetParent : OffsetParents]
    /\ state \in [cachedHighlightRects : RectLists, tooltipIsHovered : {FALSE}]
    /\ layout = [wrap |-> 3, scroll |-> Point(0, 0)]
    /\ Unmounted

EvalHover ==
    /\ ~result.done
    /\ result' =
        [done |-> TRUE,
         value |-> _highlightIsHovered(props.mouseClientPosition, props, state,
                                       layout),
         reversed |-> _highlightIsHovered(
                        props.mouseClientPosition, props,
                        [state EXCEPT !.cachedHighlightRects =
                                        Reverse(state.cachedHighlightRects)],
                        layout)]
    /\ UNCHANGED <<props, state, layout, rendered, measured,
                   offsetParentRectAtRender, calls, pointerWasOverHighlight, args>>

SpecHover == InitHover /\ [][EvalHover]_vars

InitCompute ==
    /\ args = NoArgs
    /\ props \in PropsSet
    /\ state = [cachedHighlightRects |-> << >>, tooltipIsHovered |-> FALSE]
    /\ layout \in Layouts
    /\ Unmounted

EvalCompute ==
    /\ ~result.done
    /\ result' = [done |-> TRUE, value |-> _computeRects(props, layout)]
    /\ UNCHANGED <<props, state, layout, rendered, measured,
                   offsetParentRectAtRender, calls, pointerWasOverHighlight, args>>

SpecCompute == InitCompute /\ [][EvalCompute]_vars

-----------------------------------------------------------------------------
(* Properties *)

\* The highlight was hovered when render() last ran.
HoveredAtRender ==
    /\ props.mouseClientPosition # Absent
    /\ InsideAny(SeenFrom(props.mouseClientPosition, offsetParentRectAtRender),
                 state.cachedHighlightRects)

IdentityChanges ==
    \/ props'.highlight # props.highlight
    \/ props'.offsetParent # props.offsetParent

\* C1: the cached rectangles are always those of the current highlight in the
\* current offset parent, as the page was laid out at the last mount or
\* change of either identity.
CacheIsOfCurrentPair == state.cachedHighlightRects = measured

\* C1 witness: the text has been laid out again since, and the cache still
\* holds the rectangles measured at the last identity change.
CacheIsStale ==
    /\ calls.computeRects = "no"
    /\ Len(state.cachedHighlightRects) = 2
    /\ Len(_computeRects(props, layout)) = 1

\* C2: a step calls _computeRects and replaces the cache exactly when the
\* highlight or the offset parent it receives is another object; every other
\* step leaves the cache as it is, whatever the layout has become.
RecomputeIffIdentityChanges ==
    [][/\ (calls'.computeRects # "no") <=> IdentityChanges
       /\ IdentityChanges =>
            state'.cachedHighlightRects = _computeRects(props', layout')
       /\ ~IdentityChanges =>
            state'.cachedHighlightRects = state.cachedHighlightRects]_vars

\* C2 witness: a props update has just recomputed the cache while the tooltip
\* was hovered (so after mount).
RecomputedByUpdate ==
    /\ calls.computeRects = "componentWillReceiveProps"
    /\ state.tooltipIsHovered
    /\ Len(state.cachedHighlightRects) > 0

\* C3: whenever render() evaluated the hover (editable, tooltip not hovered,
\* a pointer position), its answer is the one the rectangles of the highlight
\* it was given produce, in the same update that delivered that highlight too.
HoverUsesNewRects ==
    (props.editable /\ ~state.tooltipIsHovered /\ props.mouseClientPosition # Absent)
        => rendered.tooltip =
            InsideAny(SeenFrom(props.mouseClientPosition, offsetParentRectAtRender),
                      measured)

\* C3 witness: the update that recomputed the cache rendered the tooltip from
\* a hover over the new rectangles.
HoverAfterRecompute ==
    /\ calls.computeRects = "componentWillReceiveProps"
    /\ props.editable /\ ~state.tooltipIsHovered
    /\ props.mouseClientPosition # Absent
    /\ rendered.tooltip

\* C4: the tooltip is shown exactly when the highlight is editable and the
\* tooltip is hovered or render() found the highlight hovered; never when the
\* highlight is not editable.
TooltipShownIff ==
    rendered.tooltip =
        (props.editable /\ (state.tooltipIsHovered \/ HoveredAtRender))

\* C4 witness: not editable, tooltip hovered, pointer over the highlight, and
\* no tooltip.
HiddenWhenNotEditable ==
    /\ ~props.editable
    /\ state.tooltipIsHovered
    /\ HoveredAtRender
    /\ ~rendered.tooltip

\* C5: while the highlight is editable, a step that leaves tooltipIsHovered
\* true leaves the tooltip shown, wherever the pointer is and whichever
\* highlight or offset parent arrives.
TooltipIsSticky ==
    [][(state.tooltipIsHovered /\ state'.tooltipIsHovered /\ props'.editable)
            => rendered'.tooltip]_vars

\* C5 witness: the tooltip is hovered and shown while the pointer is over no
\* cached rectangle.
ShownOffHighlight ==
    /\ props.editable
    /\ state.tooltipIsHovered
    /\ props.mouseClientPosition # Absent
    /\ ~HoveredAtRender
    /\ rendered.tooltip

\* The content lies where it lay, relative to the offset parent, when the
\* cache was computed: both have only moved together since.
MovedRigidly ==
    ContentRects(props.highlight, props.offsetParent, layout) = measured

\* C6: when the content and its offset parent have only moved together since
\* the cache was computed, a pointer position is hovering exactly when it is
\* inside one of the content's current viewport rectangles.
HoverFollowsScroll ==
    MovedRigidly =>
        \A m \in Positions :
            _highlightIsHovered(m, props, state, layout).hovered
                <=> InsideAny(m, getClientRectsForTextInRange(
                                    DomRange[props.highlight], layout))

\* C6 witness: the page has scrolled since the last render, and the pointer is
\* over the content where it now is.
HoveredAfterScroll ==
    /\ MovedRigidly
    /\ offsetParentRectAtRender # getBoundingClientRect(props.offsetParent, layout)
    /\ props.mouseClientPosition # Absent
    /\ ~HoveredAtRender
    /\ _highlightIsHovered(props.mouseClientPosition, props, state, layout).hovered

\* C7: _rectIsHovered is the half-open containment test: left and top edges
\* inside, right and bottom edges outside, nothing inside an empty rectangle.
RectIsHoveredIsHalfOpen ==
    result.done /\ args # NoArgs =>
        /\ result.value <=>
            /\ args.rect.left <= args.point.left
            /\ args.point.left < args.rect.left + args.rect.width
            /\ args.rect.top <= args.point.top
            /\ args.point.top < args.rect.top + args.rect.height
        /\ (args.rect.width = 0 \/ args.rect.height = 0) => ~result.value

\* C7 witness: a point on the right edge of a rectangle, tested and outside.
OnRightEdge ==
    /\ result.done /\ args # NoArgs
    /\ args.rect.width > 0 /\ args.rect.height > 0
    /\ args.point.left = args.rect.left + args.rect.width
    /\ args.point.top = args.rect.top
    /\ ~result.value

\* C8: for a pointer position, _highlightIsHovered is true exactly when some
\* cached rectangle contains the position seen from the offset parent's
\* current rectangle, in whatever order the rectangles are.
HoveredIffInSomeRect ==
    (result.done /\ args = NoArgs /\ props.mouseClientPosition # Absent) =>
        /\ result.value.hovered =
            InsideAny(SeenFrom(props.mouseClientPosition,
                               getBoundingClientRect(props.offsetParent, layout)),
                      state.cachedHighlightRects)
        /\ result.reversed.hovered = result.value.hovered

\* C8 witness: two rectangles, the pointer over the second one only.
OverSecondRect ==
    /\ result.done /\ args = NoArgs
    /\ props.mouseClientPosition # Absent
    /\ Len(state.cachedHighlightRects) = 2
    /\ ~Inside(SeenFrom(props.mouseClientPosition,
                        getBoundingClientRect(props.offsetParent, layout)),
               state.cachedHighlightRects[1])
    /\ result.value.hovered

\* C9: without a pointer position _highlightIsHovered returns false, whatever
\* is cached, and does not measure the offset parent.
AbsentIsNotHovered ==
    (result.done /\ args = NoArgs /\ props.mouseClientPosition = Absent) =>
        /\ result.value.hovered = FALSE
        /\ result.value.readsOffsetParentRect = FALSE

\* C9 witness: evaluated without a position over a non-empty cache.
AbsentOverRects ==
    /\ result.done /\ args = NoArgs
    /\ props.mouseClientPosition = Absent
    /\ Len(state.cachedHighlightRects) > 0

\* C10 as stated: with an empty cache nothing is hovered and nothing is
\* drawn, neither a rectangle nor the tooltip.
NothingDrawnWhenEmpty ==
    Len(state.cachedHighlightRects) = 0 =>
        /\ \A m \in MousePositions :
                ~_highlightIsHovered(m, props, state, layout).hovered
        /\ rendered.rects = << >>
        /\ ~rendered.tooltip

\* C10 amended: with an empty cache nothing is hovered and no rectangle is
\* drawn; the tooltip is drawn exactly when the highlight is editable and the
\* tooltip itself is hovered.
OnlyStickyTooltipWhenEmpty ==
    Len(state.cachedHighlightRects) = 0 =>
        /\ \A m \in MousePositions :
                ~_highlightIsHovered(m, props, state, layout).hovered
        /\ rendered.rects = << >>
        /\ rendered.tooltip = (props.editable /\ state.tooltipIsHovered)

\* C10 witness: an empty cache under a pointer position, and no tooltip.
EmptyCacheUnderPointer ==
    /\ Len(state.cachedHighlightRects) = 0
    /\ calls.computeRects = "componentWillReceiveProps"
    /\ props.editable
    /\ props.mouseClientPosition # Absent
    /\ ~rendered.tooltip

\* C11 as stated: right after mount the tooltip is hidden, whatever the
\* props and the computed rectangles are.
HiddenAfterMount ==
    calls.computeRects = "constructor" => ~rendered.tooltip

\* C11 amended: right after mount the tooltip is not hovered, and it is shown
\* exactly when the highlight is editable and the pointer is inside one of
\* the content's viewport rectangles.
AfterMountShownIffHovered ==
    calls.computeRects = "constructor" =>
        /\ ~state.tooltipIsHovered
        /\ rendered.tooltip =
            /\ props.editable
            /\ props.mouseClientPosition # Absent
            /\ InsideAny(props.mouseClientPosition,
                         getClientRectsForTextInRange(DomRange[props.highlight],
                                                      layout))

\* C11 witness: mounted editable under the pointer, the tooltip is shown.
ShownAfterMount ==
    /\ calls.computeRects = "constructor"
    /\ rendered.tooltip

\* C12: while editable, (1) with the tooltip not hovered, a pointer move to a
\* position over no cached rectangle, or to none, hides the tooltip; (2) the
\* step that ends the tooltip's hover leaves the tooltip shown exactly when
\* the pointer is over a cached rectangle.
HidingTransitions ==
    [][/\ ( /\ props.editable /\ ~state.tooltipIsHovered /\ rendered.tooltip
            /\ props' = [props EXCEPT !.mouseClientPosition =
                                        props'.mouseClientPosition]
            /\ props'.mouseClientPosition # props.mouseClientPosition
            /\ ~PointerOverHighlight(props', state', layout') )
          => ~rendered'.tooltip
       /\ ( /\ props.editable /\ state.tooltipIsHovered /\ rendered.tooltip
            /\ ~state'.tooltipIsHovered )
          => rendered'.tooltip = PointerOverHighlight(props', state', layout')
      ]_vars

\* C12 witness: the pointer has just left the tooltip, away from the
\* rectangles, and the tooltip is gone.
HiddenByTooltipLeave ==
    /\ calls.setTooltipIsHovered
    /\ ~state.tooltipIsHovered
    /\ props.editable
    /\ props.mouseClientPosition # Absent
    /\ ~rendered.tooltip

\* C13: the pointer entering the tooltip sets tooltipIsHovered, the pointer
\* leaving it clears tooltipIsHovered, and both leave the cached rectangles
\* alone; every other step leaves tooltipIsHovered as it was.
TooltipHoverSetOnlyByTooltip ==
    [][/\ _handleTooltipMouseEnter =>
            /\ state'.tooltipIsHovered
            /\ state'.cachedHighlightRects = state.cachedHighlightRects
       /\ _handleTooltipMouseLeave =>
            /\ ~state'.tooltipIsHovered
            /\ state'.cachedHighlightRects = state.cachedHighlightRects
       /\ ~calls'.setTooltipIsHovered =>
            state'.tooltipIsHovered = state.tooltipIsHovered
      ]_vars

\* C13 witness: the rectangles were recomputed while the tooltip was hovered,
\* and it still is.
HoveredThroughRecompute ==
    /\ calls.computeRects = "componentWillReceiveProps"
    /\ state.tooltipIsHovered
    /\ Len(state.cachedHighlightRects) = 2

\* C14: a remove request calls onRemoveHighlight once, with the key the
\* props hold at that moment, and changes neither the props, the state nor
\* what is rendered.
RemoveOnlyForwardsKey ==
    [][calls'.onRemoveHighlight # << >> =>
            /\ calls'.onRemoveHighlight = <<props.highlightKey>>
            /\ state' = state
            /\ rendered' = rendered
            /\ props' = props
      ]_vars

\* C14 witness: removal was requested from a hovered tooltip, which is still
\* hovered and shown.
RemovedFromHoveredTooltip ==
    /\ calls.onRemoveHighlight = <<props.highlightKey>>
    /\ state.tooltipIsHovered
    /\ rendered.tooltip

\* C15: _computeRects returns one rectangle per viewport rectangle of the
\* range, in the same order, each moved by the top-left corner of the offset
\* parent's viewport rectangle and of unchanged width and height.
ComputeRectsTranslates ==
    result.done =>
        LET v == getClientRectsForTextInRange(DomRange[props.highlight], layout)
            c == getBoundingClientRect(props.offsetParent, layout)
        IN  /\ Len(result.value) = Len(v)
            /\ \A i \in 1..Len(v) :
                    /\ result.value[i].left = v[i].left - c.left
                    /\ result.value[i].top = v[i].top - c.top
                    /\ result.value[i].width = v[i].width
                    /\ result.value[i].height = v[i].height

\* C15 witness: two rectangles were computed against an offset parent whose
\* corner is off the viewport's origin on both axes.
TwoRectsTranslated ==
    /\ result.done
    /\ Len(result.value) = 2
    /\ getBoundingClientRect(props.offsetParent, layout).left # 0
    /\ getBoundingClientRect(props.offsetParent, layout).top # 0
    /\ result.value[1] # result.value[2]

\* C17: the rectangles drawn are the cached rectangles, in order and
\* unchanged, whatever editable, tooltipIsHovered and the pointer are.
DrawnRectsAreCache ==
    rendered.rects = state.cachedHighlightRects

\* C17 witness: a read-only highlight with nothing hovered draws its two
\* rectangles.
ReadOnlyHighlightDrawn ==
    /\ ~props.editable
    /\ ~state.tooltipIsHovered
    /\ props.mouseClientPosition = Absent
    /\ Len(rendered.rects) = 2

\* C18 as stated: whenever tooltipIsHovered is true the tooltip is shown.
HoverFlagNeverStale ==
    state.tooltipIsHovered => rendered.tooltip

\* C19: onRemoveHighlight is called only while the tooltip is shown, hence
\* while the highlight is editable, and only after a render at which the
\* pointer was over a cached rectangle.
RemoveOnlyFromShownTooltip ==
    [][calls'.onRemoveHighlight # << >> =>
            /\ rendered.tooltip
            /\ props.editable
            /\ pointerWasOverHighlight
      ]_vars

\* C19 witness: removal was requested from a tooltip that is shown because
\* the pointer is over the highlight.
RemovedWhileOverHighlight ==
    /\ calls.onRemoveHighlight # << >>
    /\ ~state.tooltipIsHovered
    /\ props.editable
    /\ pointerWasOverHighlight

====
